---- MODULE Spec2Model ----
(***************************************************************************)
(* GeoGenocides: the CSV pipeline of streamlit_app.py                      *)
(* (CSVRepository -> CaseService -> MapBuilder -> View).                   *)
(*                                                                         *)
(* Text is a sequence of one-character strings, so that strip(), lower(),  *)
(* float() and the date parser are computed on the characters.  A cell of  *)
(* a DataFrame is a tagged record: NaN, NaT, Str(text), Num(n), Date.      *)
(* Numbers are integers: the coordinate texts drawn are integer numerals.  *)
(***************************************************************************)
EXTENDS Integers, Sequences, FiniteSets, TLC

\* ------------------------------------------------------------------ bounds
\* Most data rows in a CSV file.
MaxRows == 2

\* ------------------------------------------------------------------ text
Digits == {"0", "1", "2", "3", "4", "5", "6", "7", "8", "9"}

DigitVal(c) ==
    CASE c = "0" -> 0 [] c = "1" -> 1 [] c = "2" -> 2 [] c = "3" -> 3
      [] c = "4" -> 4 [] c = "5" -> 5 [] c = "6" -> 6 [] c = "7" -> 7
      [] c = "8" -> 8 [] c = "9" -> 9

IsSpace(c) == c = " "

RECURSIVE LStrip(_)
LStrip(s) == IF s # <<>> /\ IsSpace(Head(s)) THEN LStrip(Tail(s)) ELSE s

RECURSIVE RStrip(_)
RStrip(s) ==
    IF s # <<>> /\ IsSpace(s[Len(s)]) THEN RStrip(SubSeq(s, 1, Len(s) - 1)) ELSE s

\* str.strip()
Strip(s) == RStrip(LStrip(s))

AllDigits(s) == s # <<>> /\ \A i \in 1..Len(s) : s[i] \in Digits

RECURSIVE DigitsVal(_)
DigitsVal(s) ==
    IF s = <<>> THEN 0
    ELSE 10 * DigitsVal(SubSeq(s, 1, Len(s) - 1)) + DigitVal(s[Len(s)])

\* A numeral the number parsers accept: an optional sign, digits, and
\* optionally a point and one more digit ("-181", "34.0", "71.5").
IntPart(s) == IF Len(s) >= 3 /\ s[Len(s) - 1] = "." THEN SubSeq(s, 1, Len(s) - 2) ELSE s

FracPart(s) == IF Len(s) >= 3 /\ s[Len(s) - 1] = "." THEN <<s[Len(s)]>> ELSE <<"0">>

Unsigned(s) == IF s # <<>> /\ Head(s) = "-" THEN Tail(s) ELSE s

IsNumeral(s) == AllDigits(IntPart(Unsigned(s))) /\ AllDigits(FracPart(Unsigned(s)))

\* The value of a numeral, in tenths (the unit of every number of the model).
NumeralVal(s) ==
    LET u == Unsigned(s)
        mag == 10 * DigitsVal(IntPart(u)) + DigitsVal(FracPart(u))
    IN IF Head(s) = "-" THEN 0 - mag ELSE mag

\* The characters in code order, for comparing texts.
Ascii ==
    <<" ", "-", ".", "/", "0", "1", "2", "3", "4", "5", "6", "7", "8", "9", ":", ";",
      "<", ">", "A", "B", "C", "D", "E", "F", "G", "H", "I", "J", "K", "L", "M", "N",
      "O", "P", "Q", "R", "S", "T", "U", "V", "W", "X", "Y", "Z", "_", "a", "b", "c",
      "d", "e", "f", "g", "h", "i", "j", "k", "l", "m", "n", "o", "p", "q", "r", "s",
      "t", "u", "v", "w", "x", "y", "z">>

Rank(c) == CHOOSE i \in 1..Len(Ascii) : Ascii[i] = c

UpperCase == {Ascii[i] : i \in 19..44}

\* str.lower(): "a" stands 27 places after "A" in Ascii.
LowerChar(c) == IF c \in UpperCase THEN Ascii[Rank(c) + 27] ELSE c

Lower(s) == [i \in 1..Len(s) |-> LowerChar(s[i])]

RECURSIVE TextLess(_, _)
TextLess(a, b) ==
    IF b = <<>> THEN FALSE
    ELSE IF a = <<>> THEN TRUE
    ELSE IF Head(a) = Head(b) THEN TextLess(Tail(a), Tail(b))
    ELSE Rank(Head(a)) < Rank(Head(b))

\* str.split(sep) for a one-character separator.
RECURSIVE Split(_, _)
Split(s, sep) ==
    IF \A i \in 1..Len(s) : s[i] # sep THEN <<s>>
    ELSE LET k == CHOOSE i \in 1..Len(s) : s[i] = sep /\ \A j \in 1..(i - 1) : s[j] # sep
         IN <<SubSeq(s, 1, k - 1)>> \o Split(SubSeq(s, k + 1, Len(s)), sep)

\* ------------------------------------------------------------------ texts
c_id == <<"i", "d">>
c_name == <<"n", "a", "m", "e">>
c_country == <<"c", "o", "u", "n", "t", "r", "y">>
c_region == <<"r", "e", "g", "i", "o", "n">>
c_latitude == <<"l", "a", "t", "i", "t", "u", "d", "e">>
c_longitude == <<"l", "o", "n", "g", "i", "t", "u", "d", "e">>
c_start_date == <<"s", "t", "a", "r", "t", "_", "d", "a", "t", "e">>
c_status == <<"s", "t", "a", "t", "u", "s">>
c_perpetrators == <<"p", "e", "r", "p", "e", "t", "r", "a", "t", "o", "r", "s">>
c_targeted_group == <<"t", "a", "r", "g", "e", "t", "e", "d", "_", "g", "r", "o", "u", "p">>
c_est_deaths == <<"e", "s", "t", "_", "d", "e", "a", "t", "h", "s">>
c_last_verified == <<"l", "a", "s", "t", "_", "v", "e", "r", "i", "f", "i", "e", "d">>
c_sources == <<"s", "o", "u", "r", "c", "e", "s">>
c_summary == <<"s", "u", "m", "m", "a", "r", "y">>
c_color == <<"c", "o", "l", "o", "r">>
c_tooltip == <<"t", "o", "o", "l", "t", "i", "p">>

h_ID == <<" ", "I", "D">>
h_Name == <<"N", "a", "m", "e", " ">>
h_LATITUDE == <<"L", "A", "T", "I", "T", "U", "D", "E">>
h_notes == <<"n", "o", "t", "e", "s">>
s_Asia == <<"A", "s", "i", "a">>
s_MENA == <<"M", "E", "N", "A">>
s_nan == <<"n", "a", "n">>
s_NaT == <<"N", "a", "T">>
s_ongoing == <<"o", "n", "g", "o", "i", "n", "g">>
s_Ongoing == <<"O", "n", "g", "o", "i", "n", "g">>
s_escalating == <<"e", "s", "c", "a", "l", "a", "t", "i", "n", "g">>
s_at_risk == <<"a", "t", "-", "r", "i", "s", "k">>
s_abc == <<"a", "b", "c">>
s_10 == <<"1", "0">>
s_20 == <<"2", "0">>
s_91 == <<"9", "1">>
s_m181 == <<"-", "1", "8", "1">>
d_2024_01_01 == <<"2", "0", "2", "4", "-", "0", "1", "-", "0", "1">>
d_2024_13_40 == <<"2", "0", "2", "4", "-", "1", "3", "-", "4", "0">>
d_1850_05_05 == <<"1", "8", "5", "0", "-", "0", "5", "-", "0", "5">>
d_2025_04_20 == <<"2", "0", "2", "5", "-", "0", "4", "-", "2", "0">>
s_url == <<"h", "t", "t", "p", ":", "/", "/", "a", ";", "b">>
s_blanks == <<" ", " ">>
s_x == <<"x">>
s_1200 == <<"1", "2", "0", "0">>
s_0 == <<"0">>

\* The two rows of the sample file (streamlit_app.py, the sidebar button).
SampleRow1 ==
    <<<<"E", "X", "-", "0", "0", "1">>,
      <<"E", "x", "a", "m", "p", "l", "e", " ", "C", "a", "s", "e">>,
      <<"E", "x", "a", "m", "p", "l", "e", "l", "a", "n", "d">>,
      <<"E", "x", "a", "m", "p", "l", "e", " ", "R", "e", "g", "i", "o", "n">>,
      <<"3", "4", ".", "0">>,
      <<"7", "1", ".", "5">>,
      <<"2", "0", "2", "4", "-", "0", "1", "-", "0", "1">>,
      <<"o", "n", "g", "o", "i", "n", "g">>,
      <<"E", "x", "a", "m", "p", "l", "e", " ", "S", "e", "c", "u", "r", "i", "t", "y", " ", "F", "o", "r", "c", "e", "s">>,
      <<"E", "x", "a", "m", "p", "l", "e", " ", "M", "i", "n", "o", "r", "i", "t", "y">>,
      <<"1", "2", "0", "0">>,
      <<"2", "0", "2", "5", "-", "1", "1", "-", "0", "1">>,
      <<"h", "t", "t", "p", "s", ":", "/", "/", "e", "x", "a", "m", "p", "l", "e", ".", "o", "r", "g", "/", "r", "e", "p", "o", "r", "t", ";", " ", "h", "t", "t", "p", "s", ":", "/", "/", "a", "n", "o", "t", "h", "e", "r", ".", "o", "r", "g", "/", "a", "r", "t", "i", "c", "l", "e">>,
      <<"S", "h", "o", "r", "t", " ", "p", "l", "a", "c", "e", "h", "o", "l", "d", "e", "r", " ", "s", "u", "m", "m", "a", "r", "y", " ", "d", "e", "s", "c", "r", "i", "b", "i", "n", "g", " ", "t", "h", "e", " ", "s", "i", "t", "u", "a", "t", "i", "o", "n", " ", "a", "n", "d", " ", "c", "i", "t", "i", "n", "g", " ", "s", "o", "u", "r", "c", "e", "s", ".">>>>

SampleRow2 ==
    <<<<"E", "X", "-", "0", "0", "2">>,
      <<"E", "s", "c", "a", "l", "a", "t", "i", "n", "g", " ", "V", "i", "o", "l", "e", "n", "c", "e">>,
      <<"S", "a", "m", "p", "l", "e", "s", "t", "a", "n">>,
      <<"A", "s", "i", "a">>,
      <<"3", "5", ".", "7">>,
      <<"5", "1", ".", "3">>,
      <<"2", "0", "2", "5", "-", "0", "4", "-", "2", "0">>,
      <<"e", "s", "c", "a", "l", "a", "t", "i", "n", "g">>,
      <<"P", "a", "r", "a", "m", "i", "l", "i", "t", "a", "r", "y", " ", "G", "r", "o", "u", "p", " ", "X">>,
      <<"G", "r", "o", "u", "p", " ", "Y">>,
      <<>>,
      <<"2", "0", "2", "5", "-", "1", "0", "-", "1", "5">>,
      <<"h", "t", "t", "p", "s", ":", "/", "/", "n", "g", "o", ".", "e", "x", "a", "m", "p", "l", "e", "/", "b", "r", "i", "e", "f", "i", "n", "g">>,
      <<"R", "i", "s", "k", "s", " ", "i", "n", "c", "r", "e", "a", "s", "i", "n", "g", ";", " ", "m", "o", "n", "i", "t", "o", "r", " ", "c", "l", "o", "s", "e", "l", "y", ".">>>>

\* ------------------------------------------------------------------ cells
NaN == [t |-> "nan"]
NaT == [t |-> "nat"]
Str(s) == [t |-> "str", v |-> s]
Num(n) == [t |-> "num", v |-> n]
Date(y, m, d) == [t |-> "date", y |-> y, m |-> m, d |-> d]

\* pd.isna
IsNa(c) == c.t \in {"nan", "nat"}

IsLeap(y) == (y % 4 = 0 /\ y % 100 # 0) \/ y % 400 = 0

DaysInMonth(y, m) ==
    IF m = 2 THEN (IF IsLeap(y) THEN 29 ELSE 28)
    ELSE IF m \in {4, 6, 9, 11} THEN 30 ELSE 31

\* The date parser on a text: YYYY-MM-DD naming a calendar day, else no date.
IsIsoShape(s) ==
    /\ Len(s) = 10
    /\ s[5] = "-" /\ s[8] = "-"
    /\ AllDigits(SubSeq(s, 1, 4)) /\ AllDigits(SubSeq(s, 6, 7))
    /\ AllDigits(SubSeq(s, 9, 10))

\* Mutant of ParseDate: the month and the day are not checked.
ParseDate_unchecked(s) ==
    IF ~IsIsoShape(s) THEN NaT
    ELSE Date(DigitsVal(SubSeq(s, 1, 4)), DigitsVal(SubSeq(s, 6, 7)),
              DigitsVal(SubSeq(s, 9, 10)))

ParseDate(s) ==
    IF ~IsIsoShape(s) THEN NaT
    ELSE LET y == DigitsVal(SubSeq(s, 1, 4))
             m == DigitsVal(SubSeq(s, 6, 7))
             d == DigitsVal(SubSeq(s, 9, 10))
         IN IF m \in 1..12 /\ d \in 1..DaysInMonth(y, m) THEN Date(y, m, d) ELSE NaT

\* Mutant of ToNumeric: what is no number becomes zero.
ToNumeric_zero(c) ==
    CASE c.t = "num" -> c
      [] c.t = "str" -> IF IsNumeral(c.v) THEN Num(NumeralVal(c.v)) ELSE Num(0)
      [] OTHER -> Num(0)

\* pd.to_numeric(errors="coerce") on one cell.
ToNumeric(c) ==
    CASE c.t = "num" -> c
      [] c.t = "str" -> IF IsNumeral(c.v) THEN Num(NumeralVal(c.v)) ELSE NaN
      [] OTHER -> NaN

\* Mutant of ToDatetime: only a text is parsed, a day already parsed is lost.
ToDatetime_text_only(c) ==
    CASE c.t = "str" -> ParseDate(c.v)
      [] OTHER -> NaT

\* pd.to_datetime(errors="coerce") on one cell; .dt.date keeps the day.
ToDatetime(c) ==
    CASE c.t = "date" -> c
      [] c.t = "str" -> ParseDate(c.v)
      [] OTHER -> NaT

\* float(x) of Python raises ValueError on a text that is no numeral.
FloatRaises(c) == c.t = "str" /\ ~IsNumeral(Strip(c.v))

FloatVal(c) == IF c.t = "num" THEN c.v ELSE NumeralVal(Strip(c.v))

\* str(x) of Python, and Series.astype(str), on one cell.
DateText(c) ==
    LET Two(n) == <<Ascii[5 + (n \div 10)], Ascii[5 + (n % 10)]>>
    IN Two(c.y \div 100) \o Two(c.y % 100) \o <<"-">> \o Two(c.m) \o <<"-">> \o Two(c.d)

PyStr(c) ==
    CASE c.t = "str" -> c.v
      [] c.t = "nan" -> s_nan
      [] c.t = "nat" -> s_NaT
      [] c.t = "date" -> DateText(c)

\* ------------------------------------------------------------------ config.py
REQUIRED_COLS ==
    <<c_id, c_name, c_country, c_region, c_latitude, c_longitude, c_start_date,
      c_status, c_perpetrators, c_targeted_group, c_est_deaths, c_last_verified,
      c_sources, c_summary>>

PREFERRED_PATH == "data/genocides.csv"
FALLBACK_PATH == "genocides.csv"

STATUS_COLOR ==
    [k \in {s_ongoing, s_escalating, s_at_risk} |->
        CASE k = s_ongoing -> <<220, 20, 60>>
          [] k = s_escalating -> <<255, 140, 0>>
          [] k = s_at_risk -> <<255, 215, 0>>]

DEFAULT_COLOR == <<100, 149, 237>>

\* ------------------------------------------------------------------ DataFrame
\* A DataFrame is [columns: the names in order, rows: a sequence of
\* [idx: the index label, cells: name -> cell]].  Masking keeps the labels.
InSeq(x, s) == \E i \in 1..Len(s) : s[i] = x

Range(s) == {s[i] : i \in 1..Len(s)}

\* The table with other rows: df[mask] is WithRows(df, SelectSeq(df.rows, Test)).
WithRows(df, rows) == [df EXCEPT !.rows = rows]

\* df[name] = values, one per row: a new column goes last, an old one keeps
\* its place.
Assign(df, name, values) ==
    [columns |-> IF InSeq(name, df.columns) THEN df.columns ELSE Append(df.columns, name),
     rows |-> [i \in 1..Len(df.rows) |->
                 [idx |-> df.rows[i].idx,
                  cells |-> [c \in DOMAIN df.rows[i].cells \cup {name} |->
                               IF c = name THEN values[i] ELSE df.rows[i].cells[c]]]]]

\* df[names]
Project(df, names) ==
    [columns |-> names,
     rows |-> [i \in 1..Len(df.rows) |->
                 [idx |-> df.rows[i].idx,
                  cells |-> [c \in Range(names) |-> df.rows[i].cells[c]]]]]

Empty(df) == df.rows = <<>> \/ df.columns = <<>>

\* row.get(name, default)
RowGet(row, name, default) ==
    IF name \in DOMAIN row.cells THEN row.cells[name] ELSE default

\* ------------------------------------------------------------------ repository.py
\* A CSV file is [parseable, header: the names as written, rows: the cell
\* texts of each line]; <<>> is a blank cell.
\* pd.read_csv: a column whose non-blank cells are all numerals is numeric,
\* any other column keeps its texts; a blank cell is NaN in both.
ColumnIsNumeric(file, j) ==
    \A i \in 1..Len(file.rows) : file.rows[i][j] = <<>> \/ IsNumeral(file.rows[i][j])

ReadCell(file, i, j) ==
    LET s == file.rows[i][j]
    IN IF s = <<>> THEN NaN
       ELSE IF ColumnIsNumeric(file, j) THEN Num(NumeralVal(s)) ELSE Str(s)

read_csv(file) ==
    [columns |-> file.header,
     rows |-> [i \in 1..Len(file.rows) |->
                 [idx |-> i - 1,
                  cells |-> [h \in Range(file.header) |->
                               ReadCell(file, i, CHOOSE j \in 1..Len(file.header) :
                                                    file.header[j] = h)]]]]

\* df.columns = [c.strip().lower() for c in df.columns]
RenameColumns(df) ==
    LET cols == [j \in 1..Len(df.columns) |-> Lower(Strip(df.columns[j]))]
    IN [columns |-> cols,
        rows |-> [i \in 1..Len(df.rows) |->
                    [idx |-> df.rows[i].idx,
                     cells |-> [c \in Range(cols) |->
                                  df.rows[i].cells[df.columns[CHOOSE j \in 1..Len(cols) :
                                                                 cols[j] = c]]]]]]

\* Mutant of path_of: the fallback path is tried first.
path_of_fallback_first(exists) ==
    IF exists[FALLBACK_PATH] THEN FALLBACK_PATH
    ELSE IF exists[PREFERRED_PATH] THEN PREFERRED_PATH
    ELSE "None"

\* CSVRepository._path: "None" when neither file exists.
path_of(exists) ==
    IF exists[PREFERRED_PATH] THEN PREFERRED_PATH
    ELSE IF exists[FALLBACK_PATH] THEN FALLBACK_PATH
    ELSE "None"

\* CSVRepository.load: None, a DataFrame, or the exception read_csv raises.
load(exists, files) ==
    LET path == path_of(exists)
    IN IF path = "None" THEN [kind |-> "None"]
       ELSE IF ~files[path].parseable THEN [kind |-> "raise", path |-> path]
       ELSE [kind |-> "df", path |-> path, df |-> RenameColumns(read_csv(files[path]))]

\* Mutant of validate: only the first missing name is returned.
validate_first_missing(df) ==
    LET Missing(c) == ~InSeq(c, df.columns)
        all == SelectSeq(REQUIRED_COLS, Missing)
    IN IF all = <<>> THEN <<>> ELSE <<Head(all)>>

\* CSVRepository.validate
validate(df) ==
    LET Missing(c) == ~InSeq(c, df.columns)
    IN SelectSeq(REQUIRED_COLS, Missing)

\* ------------------------------------------------------------------ services.py
\* CaseService.normalize
normalize(df) ==
    LET Coerce(row) ==
            [row EXCEPT !.cells[c_latitude] = ToNumeric(@),
                        !.cells[c_longitude] = ToNumeric(@),
                        !.cells[c_est_deaths] = ToNumeric(@),
                        !.cells[c_start_date] = ToDatetime(@),
                        !.cells[c_last_verified] = ToDatetime(@)]
    IN WithRows(df, [i \in 1..Len(df.rows) |-> Coerce(df.rows[i])])

\* The coordinate reasons of one row (services.py 29-38): float(lon) is
\* evaluated only when the latitude is in range.
CoordMsgs(row) ==
    LET lat == RowGet(row, c_latitude, NaN)
        lon == RowGet(row, c_longitude, NaN)
    IN IF IsNa(lat) \/ IsNa(lon) THEN <<"lat/lon missing or invalid">>
       ELSE IF FloatRaises(lat) THEN <<"lat/lon invalid type">>
       ELSE IF ~(-900 <= FloatVal(lat) /\ FloatVal(lat) <= 900)
            THEN <<"lat/lon out of range">>
       ELSE IF FloatRaises(lon) THEN <<"lat/lon invalid type">>
       ELSE IF ~(-1800 <= FloatVal(lon) /\ FloatVal(lon) <= 1800)
            THEN <<"lat/lon out of range">>
       ELSE <<>>

SourceMsgs(row) ==
    IF Strip(PyStr(RowGet(row, c_sources, Str(<<>>)))) = <<>>
    THEN <<"missing sources">> ELSE <<>>

\* CaseService.quality_issues: (index label, reasons) per flagged row; the
\* message "; ".join(msgs) is kept as the sequence of its reasons.
quality_issues(df) ==
    LET entries == [i \in 1..Len(df.rows) |->
                      <<df.rows[i].idx, CoordMsgs(df.rows[i]) \o SourceMsgs(df.rows[i])>>]
        Flagged(e) == e[2] # <<>>
    IN SelectSeq(entries, Flagged)

\* The masks of CaseService.filter.
RegionIn(row, regions) == PyStr(row.cells[c_region]) \in regions

StatusIn(row, statuses) == PyStr(row.cells[c_status]) \in statuses

YearIn(row, year_min, year_max) ==
    LET sd == ToDatetime(row.cells[c_start_date])
    IN sd.t = "date" /\ sd.y >= year_min /\ sd.y <= year_max

\* Mutants of filter: the year mask left out; the lower year bound exclusive;
\* an empty selection keeping no row.
filter_no_year(df, regions, statuses, year_min, year_max) ==
    LET ByRegion(row) == RegionIn(row, regions)
        ByStatus(row) == StatusIn(row, statuses)
        f1 == IF regions # {} THEN WithRows(df, SelectSeq(df.rows, ByRegion)) ELSE df
    IN IF statuses # {} THEN WithRows(f1, SelectSeq(f1.rows, ByStatus)) ELSE f1

filter_year_exclusive(df, regions, statuses, year_min, year_max) ==
    LET ByRegion(row) == RegionIn(row, regions)
        ByStatus(row) == StatusIn(row, statuses)
        ByYear(row) == YearIn(row, year_min + 1, year_max)
        f1 == IF regions # {} THEN WithRows(df, SelectSeq(df.rows, ByRegion)) ELSE df
        f2 == IF statuses # {} THEN WithRows(f1, SelectSeq(f1.rows, ByStatus)) ELSE f1
    IN WithRows(f2, SelectSeq(f2.rows, ByYear))

filter_empty_is_none(df, regions, statuses, year_min, year_max) ==
    LET ByRegion(row) == RegionIn(row, regions)
        ByStatus(row) == StatusIn(row, statuses)
        ByYear(row) == YearIn(row, year_min, year_max)
        f1 == WithRows(df, SelectSeq(df.rows, ByRegion))
        f2 == WithRows(f1, SelectSeq(f1.rows, ByStatus))
    IN WithRows(f2, SelectSeq(f2.rows, ByYear))

\* CaseService.filter
filter(df, regions, statuses, year_min, year_max) ==
    LET ByRegion(row) == RegionIn(row, regions)
        ByStatus(row) == StatusIn(row, statuses)
        ByYear(row) == YearIn(row, year_min, year_max)
        f1 == IF regions # {} THEN WithRows(df, SelectSeq(df.rows, ByRegion)) ELSE df
        f2 == IF statuses # {} THEN WithRows(f1, SelectSeq(f1.rows, ByStatus)) ELSE f1
    IN WithRows(f2, SelectSeq(f2.rows, ByYear))

\* Mutant of ColorOf: the status is looked up as written.
ColorOf_as_written(row) ==
    LET s == PyStr(row.cells[c_status])
    IN [t |-> "rgb", v |-> IF s \in DOMAIN STATUS_COLOR THEN STATUS_COLOR[s] ELSE DEFAULT_COLOR]

\* CaseService.colorize
ColorOf(row) ==
    LET s == Lower(PyStr(row.cells[c_status]))
    IN [t |-> "rgb", v |-> IF s \in DOMAIN STATUS_COLOR THEN STATUS_COLOR[s] ELSE DEFAULT_COLOR]

colorize(df) == Assign(df, c_color, [i \in 1..Len(df.rows) |-> ColorOf(df.rows[i])])

tt_b == <<"<", "b", ">">>
tt_b_br == <<"<", "/", "b", ">", "<", "b", "r", ">">>
\* " \u2014 ": the dash is the one character "emdash".
tt_dash == <<" ", "emdash", " ">>
tt_br == <<"<", "b", "r", ">">>
tt_status == <<"S", "t", "a", "t", "u", "s", ":", " ">>
tt_targeted == <<"T", "a", "r", "g", "e", "t", "e", "d", ":", " ">>
tt_perps == <<"P", "e", "r", "p", "e", "t", "r", "a", "t", "o", "r", "s", ":", " ">>
tt_since == <<"S", "i", "n", "c", "e", ":", " ">>
tt_verified == <<"L", "a", "s", "t", " ", "v", "e", "r", "i", "f", "i", "e", "d", ":", " ">>

\* CaseService.tooltipify
TooltipOf(row) ==
    LET S(c) == PyStr(row.cells[c])
    IN Str(tt_b \o S(c_name) \o tt_b_br
           \o S(c_country) \o tt_dash \o S(c_region) \o tt_br
           \o tt_status \o S(c_status) \o tt_br
           \o tt_targeted \o S(c_targeted_group) \o tt_br
           \o tt_perps \o S(c_perpetrators) \o tt_br
           \o tt_since \o S(c_start_date) \o tt_br
           \o tt_verified \o S(c_last_verified))

tooltipify(df) == Assign(df, c_tooltip, [i \in 1..Len(df.rows) |-> TooltipOf(df.rows[i])])

\* CaseService.table_display
table_display(df) ==
    LET cols == <<c_id, c_name, c_country, c_region, c_status, c_targeted_group,
                  c_perpetrators, c_start_date, c_last_verified, c_est_deaths>>
        Have(c) == InSeq(c, df.columns)
    IN Project(df, SelectSeq(cols, Have))

\* DataFrame.sort_values(keys): ascending, stable, NaN last.
CellLess(a, b) == ~IsNa(a) /\ (IsNa(b) \/ TextLess(PyStr(a), PyStr(b)))

RECURSIVE RowLess(_, _, _)
RowLess(r1, r2, keys) ==
    /\ keys # <<>>
    /\ \/ CellLess(r1.cells[Head(keys)], r2.cells[Head(keys)])
       \/ /\ ~CellLess(r2.cells[Head(keys)], r1.cells[Head(keys)])
          /\ RowLess(r1, r2, Tail(keys))

\* Insert a row behind every row that is not greater than it.
RECURSIVE InsertRow(_, _, _)
InsertRow(row, sorted, keys) ==
    IF sorted = <<>> THEN <<row>>
    ELSE IF RowLess(row, sorted[Len(sorted)], keys)
         THEN Append(InsertRow(row, SubSeq(sorted, 1, Len(sorted) - 1), keys),
                     sorted[Len(sorted)])
         ELSE Append(sorted, row)

RECURSIVE SortRows(_, _)
SortRows(rows, keys) ==
    IF rows = <<>> THEN <<>>
    ELSE InsertRow(rows[Len(rows)], SortRows(SubSeq(rows, 1, Len(rows) - 1), keys), keys)

sort_values(df, keys) == [df EXCEPT !.rows = SortRows(df.rows, keys)]

\* ------------------------------------------------------------------ map_builder.py
\* Mutant of minimal_map_df: only a missing latitude drops the row.
minimal_map_df_latitude_only(df) ==
    LET cols == <<c_longitude, c_latitude, c_color, c_tooltip, c_name>>
        Have(c) == InSeq(c, df.columns)
        m == Project(df, SelectSeq(cols, Have))
        Coerce(row) == [row EXCEPT !.cells[c_longitude] = ToNumeric(@),
                                   !.cells[c_latitude] = ToNumeric(@)]
        Valid(row) == ~IsNa(row.cells[c_latitude])
        mc == WithRows(m, [i \in 1..Len(m.rows) |-> Coerce(m.rows[i])])
    IN WithRows(mc, SelectSeq(mc.rows, Valid))

\* MapBuilder.minimal_map_df
minimal_map_df(df) ==
    LET cols == <<c_longitude, c_latitude, c_color, c_tooltip, c_name>>
        Have(c) == InSeq(c, df.columns)
        m == Project(df, SelectSeq(cols, Have))
        Coerce(row) == [row EXCEPT !.cells[c_longitude] = ToNumeric(@),
                                   !.cells[c_latitude] = ToNumeric(@)]
        Valid(row) == ~IsNa(row.cells[c_longitude]) /\ ~IsNa(row.cells[c_latitude])
        mc == WithRows(m, [i \in 1..Len(m.rows) |-> Coerce(m.rows[i])])
    IN WithRows(mc, SelectSeq(mc.rows, Valid))

\* ------------------------------------------------------------------ view.py
\* View.sources_panel: per row the links it writes and whether it writes the
\* summary; "info" when the table is empty.
LinksOf(row) ==
    LET parts == Split(PyStr(RowGet(row, c_sources, Str(<<>>))), ";")
        urls == [i \in 1..Len(parts) |-> Strip(parts[i])]
        NonBlank(u) == u # <<>>
    IN SelectSeq(urls, NonBlank)

sources_panel(df) ==
    IF Empty(df) THEN <<"No cases match the current filters.">>
    ELSE [i \in 1..Len(df.rows) |->
            [idx |-> df.rows[i].idx,
             links |-> LinksOf(df.rows[i]),
             summary |-> Strip(PyStr(RowGet(df.rows[i], c_summary, Str(<<>>)))) # <<>>]]

\* The floor of the year slider (View.sidebar_filters).
YearFloor == 1900

\* The year bounds of an empty table (streamlit_app.py 91-92).
EmptyYearMin == 1900
EmptyYearMax == 2025

Max(a, b) == IF a >= b THEN a ELSE b

\* streamlit_app.py 89-92: the options and the year bounds of the sidebar.
OptionsOf(df, name) ==
    {PyStr(df.rows[i].cells[name]) : i \in {j \in 1..Len(df.rows) :
        ~IsNa(df.rows[j].cells[name]) /\ PyStr(df.rows[j].cells[name]) # <<>>}}

YearsOf(df) ==
    {ToDatetime(df.rows[i].cells[c_start_date]).y : i \in {j \in 1..Len(df.rows) :
        ToDatetime(df.rows[j].cells[c_start_date]).t = "date"}}

SetMin(S) == CHOOSE x \in S : \A y \in S : x <= y
SetMax(S) == CHOOSE x \in S : \A y \in S : x >= y

\* int(... .dt.year.min()) raises on NaN: a table with rows and no start year.
YearBoundsRaise(df) == ~Empty(df) /\ YearsOf(df) = {}

yr_min(df) == IF ~Empty(df) THEN SetMin(YearsOf(df)) ELSE EmptyYearMin
yr_max(df) == IF ~Empty(df) THEN SetMax(YearsOf(df)) ELSE EmptyYearMax

\* The ends of the slider of View.sidebar_filters.
SliderLo(df) == Max(YearFloor, yr_min(df))
SliderHi(df) == Max(yr_max(df), yr_min(df))

\* ------------------------------------------------------------------ CSV files
s_A == <<"A">>
s_B == <<"B">>

\* One line of a CSV file, by column name.
TextRow(id, region, status, lat, lon, start, deaths, sources) ==
    [c \in Range(REQUIRED_COLS) |->
        CASE c = c_id -> id
          [] c = c_region -> region
          [] c = c_status -> status
          [] c = c_latitude -> lat
          [] c = c_longitude -> lon
          [] c = c_start_date -> start
          [] c = c_est_deaths -> deaths
          [] c = c_sources -> sources
          [] c = c_last_verified -> d_2025_04_20
          [] OTHER -> s_x]

\* The lines the files of a rendering pass are made of.
PassRows ==
    {TextRow(s_A, s_Asia, s_ongoing, s_10, s_20, d_2024_01_01, s_1200, s_url),
     TextRow(s_B, s_MENA, s_escalating, s_91, s_10, d_2025_04_20, <<>>, s_url),
     TextRow(s_A, s_Asia, s_Ongoing, <<>>, s_10, d_2024_01_01, <<>>, s_blanks),
     TextRow(s_B, <<>>, s_at_risk, s_abc, s_10, d_2025_04_20, s_abc, <<>>),
     TextRow(s_B, s_MENA, <<>>, s_10, s_m181, d_1850_05_05, s_1200, s_url),
     TextRow(s_A, s_Asia, s_ongoing, s_10, s_20, <<>>, <<>>, s_url),
     TextRow(s_B, s_Asia, s_Ongoing, s_20, s_10, d_2024_13_40, <<>>, s_url)}

TablesOf(pool, n) == UNION {[1..k -> pool] : k \in 0..n}

\* Headers: as required; padded and upper-cased, with one more column; with
\* sources missing; with both coordinates missing.
HeaderExact == REQUIRED_COLS

HeaderMessy ==
    <<h_ID, h_Name, c_country, c_region, h_LATITUDE, c_longitude, c_start_date,
      c_status, c_perpetrators, c_targeted_group, c_est_deaths, c_last_verified,
      c_sources, c_summary, h_notes>>

HeaderNoSources ==
    <<c_id, c_name, c_country, c_region, c_latitude, c_longitude, c_start_date,
      c_status, c_perpetrators, c_targeted_group, c_est_deaths, c_last_verified,
      c_summary>>

HeaderNoCoords ==
    <<h_ID, h_Name, c_country, c_region, c_start_date, c_status, c_perpetrators,
      c_targeted_group, c_est_deaths, c_last_verified, c_sources, c_summary>>

\* The file with this header whose lines hold these rows' texts.
FileOf(header, table) ==
    [parseable |-> TRUE,
     header |-> header,
     rows |-> [i \in 1..Len(table) |->
                 [j \in 1..Len(header) |->
                    IF Lower(Strip(header[j])) \in DOMAIN table[i]
                    THEN table[i][Lower(Strip(header[j]))] ELSE s_x]]]

\* A file pd.read_csv raises on (no columns to parse, a wrong encoding).
BadFile == [parseable |-> FALSE, header |-> <<>>, rows |-> <<>>]

\* What sample.to_csv writes (streamlit_app.py 28-62).
SampleFile == [parseable |-> TRUE, header |-> REQUIRED_COLS, rows |-> <<SampleRow1, SampleRow2>>]

PreferredFiles ==
    {FileOf(h, t) : h \in {HeaderExact, HeaderMessy}, t \in TablesOf(PassRows, MaxRows)}
    \cup {FileOf(h, t) : h \in {HeaderNoSources, HeaderNoCoords}, t \in TablesOf(PassRows, 1)}
    \cup {BadFile}

FallbackFiles ==
    {SampleFile, BadFile, FileOf(HeaderNoCoords, <<>>)}
    \cup {FileOf(HeaderMessy, t) : t \in [1..1 -> PassRows]}

\* ------------------------------------------------------------------ streamlit_app.py
VARIABLES
    exists,     \* path -> whether the file is there
    files,      \* path -> the file
    pc,         \* where the pass stands
    ran,        \* the stages the pass has run, in order
    shown,      \* what the pass has shown: [kind, about], in order
    read_path,  \* the path load read in this pass, "None" before
    df,         \* the script's df: loaded, then normalized
    missing,    \* validate's list
    issues,     \* quality_issues' list
    sel,        \* what the sidebar returned
    fdf,        \* the filtered, coloured table with tooltips
    df_map,     \* minimal_map_df(fdf)
    table_df,   \* the table shown
    download,   \* the columns and rows of the CSV offered
    sources     \* what the sources panel wrote

vars ==
    <<exists, files, pc, ran, shown, read_path, df, missing, issues, sel, fdf, df_map, table_df,
      download, sources>>

Paths == {PREFERRED_PATH, FALLBACK_PATH}

NoDF == [columns |-> <<>>, rows |-> <<>>]

NoSel == [regions |-> {}, statuses |-> {}, ymin |-> 0, ymax |-> 0]

PassStart ==
    /\ pc = "sidebar"
    /\ ran = <<>>
    /\ shown = <<>>
    /\ read_path = "None"
    /\ df = NoDF
    /\ missing = <<>>
    /\ issues = <<>>
    /\ sel = NoSel
    /\ fdf = NoDF
    /\ df_map = NoDF
    /\ table_df = NoDF
    /\ download = NoDF
    /\ sources = <<>>

Init ==
    /\ \E pe \in BOOLEAN, fe \in BOOLEAN :
         \E pf \in (IF pe THEN PreferredFiles ELSE {BadFile}),
            ff \in (IF ~fe THEN {BadFile} ELSE IF pe THEN {SampleFile} ELSE FallbackFiles) :
           /\ exists = [p \in Paths |-> IF p = PREFERRED_PATH THEN pe ELSE fe]
           /\ files = [p \in Paths |-> IF p = PREFERRED_PATH THEN pf ELSE ff]
    /\ PassStart

\* Lines 22-24: the sidebar, the button not clicked (or not offered).
SidebarInfo ==
    /\ pc = "sidebar"
    /\ pc' = "load"
    /\ UNCHANGED <<ran, exists, files, shown, read_path, df, missing, issues, sel, fdf, df_map,
                   table_df, download, sources>>

\* Lines 24-64: neither file exists and the button is clicked.
CreateSample ==
    /\ pc = "sidebar"
    /\ ~exists[PREFERRED_PATH] /\ ~exists[FALLBACK_PATH]
    /\ files' = [files EXCEPT ![PREFERRED_PATH] = SampleFile]
    /\ exists' = [exists EXCEPT ![PREFERRED_PATH] = TRUE]
    /\ shown' = Append(shown, [kind |-> "success", about |-> PREFERRED_PATH])
    /\ pc' = "load"
    /\ UNCHANGED <<ran, read_path, df, missing, issues, sel, fdf, df_map, table_df, download,
                   sources>>

\* Lines 68-72: db.load(); None stops the pass, an exception ends it.
Load ==
    /\ pc = "load"
    /\ LET r == load(exists, files)
       IN CASE r.kind = "None" ->
                 /\ shown' = Append(shown, [kind |-> "info", about |-> "No CSV found yet."])
                 /\ pc' = "stopped"
                 /\ UNCHANGED <<df, read_path>>
            [] r.kind = "raise" ->
                 /\ shown' = Append(shown, [kind |-> "exception", about |-> "read_csv"])
                 /\ pc' = "crashed"
                 /\ read_path' = r.path
                 /\ UNCHANGED df
            [] r.kind = "df" ->
                 /\ df' = r.df
                 /\ read_path' = r.path
                 /\ pc' = "validate"
                 /\ UNCHANGED shown
    /\ ran' = ran \o <<"load">>
    /\ UNCHANGED <<exists, files, missing, issues, sel, fdf, df_map, table_df, download,
                   sources>>

\* Lines 75-78: db.validate(df); a missing column stops the pass.
Validate ==
    /\ pc = "validate"
    /\ missing' = validate(df)
    /\ IF missing' # <<>>
       THEN /\ shown' = Append(shown, [kind |-> "error", about |-> missing'])
            /\ pc' = "stopped"
       ELSE /\ pc' = "normalize"
            /\ UNCHANGED shown
    /\ ran' = ran \o <<"validate">>
    /\ UNCHANGED <<exists, files, read_path, df, sel, issues, fdf, df_map, table_df,
                   download, sources>>

\* Lines 82-85: normalize, quality_issues, View.expander_issues.
NormalizeIssues ==
    /\ pc = "normalize"
    /\ df' = normalize(df)
    /\ issues' = quality_issues(df')
    /\ shown' = IF issues' # <<>> THEN Append(shown, [kind |-> "issues", about |-> issues'])
                ELSE shown
    /\ pc' = "filters"
    /\ ran' = ran \o <<"normalize", "quality_issues">>
    /\ UNCHANGED <<exists, files, read_path, missing, sel, fdf, df_map, table_df, download,
                   sources>>

\* The years the slider is moved to, besides its two ends.
YearPicks == {2024}

\* Lines 89-94: the options, the year bounds and View.sidebar_filters.  int()
\* raises when no row has a start year.  When min_value lies above max_value
\* st.slider, by its version, raises or takes the two the other way round.
SidebarFilters ==
    /\ pc = "filters"
    /\ IF YearBoundsRaise(df)
       THEN /\ shown' = Append(shown, [kind |-> "exception", about |-> "int(year)"])
            /\ pc' = "crashed"
            /\ UNCHANGED sel
       ELSE IF SliderLo(df) > SliderHi(df)
       THEN \/ /\ shown' = Append(shown, [kind |-> "exception", about |-> "slider"])
               /\ pc' = "crashed"
               /\ UNCHANGED sel
            \/ /\ \E rs \in SUBSET OptionsOf(df, c_region),
                      ss \in SUBSET OptionsOf(df, c_status),
                      lo \in {SliderLo(df), SliderHi(df)},
                      hi \in {SliderLo(df), SliderHi(df)} :
                        /\ lo <= hi
                        /\ sel' = [regions |-> rs, statuses |-> ss, ymin |-> lo, ymax |-> hi]
               /\ pc' = "adapt"
               /\ UNCHANGED shown
       ELSE /\ \E rs \in SUBSET OptionsOf(df, c_region), ss \in SUBSET OptionsOf(df, c_status),
                 lo \in {SliderLo(df), SliderHi(df)} \cup YearPicks,
                 hi \in {SliderLo(df), SliderHi(df)} \cup YearPicks :
                   /\ SliderLo(df) <= lo /\ lo <= hi /\ hi <= SliderHi(df)
                   /\ sel' = [regions |-> rs, statuses |-> ss, ymin |-> lo, ymax |-> hi]
            /\ pc' = "adapt"
            /\ UNCHANGED shown
    /\ ran' = ran \o <<"sidebar_filters">>
    /\ UNCHANGED <<exists, files, read_path, df, missing, issues, fdf, df_map, table_df,
                   download, sources>>

\* Lines 98-100: filter, colorize, tooltipify.
FilterAdapt ==
    /\ pc = "adapt"
    /\ fdf' = tooltipify(colorize(filter(df, sel.regions, sel.statuses, sel.ymin, sel.ymax)))
    /\ pc' = "map"
    /\ ran' = ran \o <<"filter", "colorize", "tooltipify">>
    /\ UNCHANGED <<exists, files, shown, read_path, df, missing, issues, sel, df_map,
                   table_df, download, sources>>

\* Lines 104-118: the map's rows.
MapStage ==
    /\ pc = "map"
    /\ df_map' = minimal_map_df(fdf)
    /\ pc' = "table"
    /\ ran' = ran \o <<"minimal_map_df">>
    /\ UNCHANGED <<exists, files, shown, read_path, df, missing, issues, sel, fdf, table_df,
                   download, sources>>

\* Lines 122-137: the table, sorted, and the CSV offered for download.
TableDownload ==
    /\ pc = "table"
    /\ table_df' = IF ~Empty(fdf)
                   THEN sort_values(table_display(fdf), <<c_region, c_country, c_name>>)
                   ELSE fdf
    /\ download' = fdf
    /\ pc' = "sources"
    /\ ran' = ran \o <<"table", "download">>
    /\ UNCHANGED <<exists, files, shown, read_path, df, missing, issues, sel, fdf, df_map,
                   sources>>

\* Lines 143-144: the sources panel; the pass is over.
SourcesPanel ==
    /\ pc = "sources"
    /\ sources' = sources_panel(fdf)
    /\ pc' = "done"
    /\ ran' = ran \o <<"sources_panel">>
    /\ UNCHANGED <<exists, files, shown, read_path, df, missing, issues, sel, fdf, df_map,
                   table_df, download>>

\* A user interaction: the script runs again from the top.
Rerun ==
    /\ pc \in {"done", "stopped", "crashed"}
    /\ pc' = "sidebar"
    /\ ran' = <<>>
    /\ shown' = <<>>
    /\ read_path' = "None"
    /\ df' = NoDF
    /\ missing' = <<>>
    /\ issues' = <<>>
    /\ sel' = NoSel
    /\ fdf' = NoDF
    /\ df_map' = NoDF
    /\ table_df' = NoDF
    /\ download' = NoDF
    /\ sources' = <<>>
    /\ UNCHANGED <<exists, files>>

Next ==
    \/ SidebarInfo
    \/ CreateSample
    \/ Load
    \/ Validate
    \/ NormalizeIssues
    \/ SidebarFilters
    \/ FilterAdapt
    \/ MapStage
    \/ TableDownload
    \/ SourcesPanel
    \/ Rerun

Spec == Init /\ [][Next]_vars

\* ------------------------------------------------------------------ library calls
\* CaseService and MapBuilder called on a table of their own, as a test or
\* another caller would: the table is loaded from one file, normalize,
\* filter, quality_issues and minimal_map_df are called on it, and pc names
\* the last call.  The results stand in the variables of the pass.

\* Lines whose region, status and start date vary.
FilterRows ==
    {TextRow(s_A, region, status, s_10, s_20, start, <<>>, s_url) :
        region \in {s_Asia, <<>>},
        status \in {s_ongoing, s_Ongoing, <<>>},
        start \in {<<>>, d_2024_01_01, d_2024_13_40, d_1850_05_05}}

\* Lines whose coordinates and sources vary.
CoordRows ==
    {TextRow(s_A, s_Asia, s_ongoing, lat, lon, d_2024_01_01, <<>>, src) :
        lat \in {<<>>, s_10, s_91, s_abc},
        lon \in {<<>>, s_20, s_m181, s_abc},
        src \in {s_url, s_blanks}}

\* The selections and year ranges filter is called with.
RegionChoices == SUBSET {s_Asia, s_nan}
StatusChoices == SUBSET {s_ongoing, s_nan}
YearChoices == {<<1900, 2024>>, <<2024, 2024>>, <<1800, 1900>>, <<2025, 2100>>, <<2024, 1900>>}

InitLib(pool) ==
    /\ exists = [p \in Paths |-> p = PREFERRED_PATH]
    /\ \E t \in TablesOf(pool, MaxRows) :
         files = [p \in Paths |-> IF p = PREFERRED_PATH THEN FileOf(HeaderExact, t)
                                  ELSE BadFile]
    /\ pc = "start"
    /\ ran = <<>>
    /\ shown = <<>>
    /\ read_path = PREFERRED_PATH
    /\ df = load(exists, files).df
    /\ missing = <<>>
    /\ issues = <<>>
    /\ sel = NoSel
    /\ fdf = NoDF
    /\ df_map = NoDF
    /\ table_df = NoDF
    /\ download = NoDF
    /\ sources = <<>>

InitFilter == InitLib(FilterRows)

InitCoords == InitLib(CoordRows)

\* df = CaseService.normalize(df)
CallNormalize ==
    /\ pc = "start"
    /\ df' = normalize(df)
    /\ pc' = "normalize"
    /\ UNCHANGED <<exists, files, ran, shown, read_path, missing, issues, sel, fdf, df_map,
                   table_df, download, sources>>

\* fdf = CaseService.filter(df, regions, statuses, year_min, year_max) on a
\* normalized table.
CallFilter ==
    /\ pc = "normalize"
    /\ \E rs \in RegionChoices, ss \in StatusChoices, yr \in YearChoices :
         /\ sel' = [regions |-> rs, statuses |-> ss, ymin |-> yr[1], ymax |-> yr[2]]
         /\ fdf' = filter(df, rs, ss, yr[1], yr[2])
    /\ pc' = "filter"
    /\ UNCHANGED <<exists, files, ran, shown, read_path, df, missing, issues, df_map,
                   table_df, download, sources>>

\* issues = CaseService.quality_issues(df), on the table as loaded or normalized.
CallQualityIssues ==
    /\ pc \in {"start", "normalize"}
    /\ issues' = quality_issues(df)
    /\ pc' = "quality_issues"
    /\ UNCHANGED <<exists, files, ran, shown, read_path, df, missing, sel, fdf, df_map,
                   table_df, download, sources>>

\* df_map = MapBuilder.minimal_map_df(fdf), fdf the table with color and tooltip.
CallMinimalMapDf ==
    /\ pc \in {"start", "normalize"}
    /\ fdf' = tooltipify(colorize(df))
    /\ df_map' = minimal_map_df(fdf')
    /\ pc' = "minimal_map_df"
    /\ UNCHANGED <<exists, files, ran, shown, read_path, df, missing, issues, sel, table_df,
                   download, sources>>

NextFilter == CallNormalize \/ CallFilter

NextCoords == CallNormalize \/ CallQualityIssues \/ CallMinimalMapDf

SpecFilter == InitFilter /\ [][NextFilter]_vars

SpecCoords == InitCoords /\ [][NextCoords]_vars

\* CaseService.normalize called on a table as loaded and again on its own
\* result: df is the caller's table, which normalize copies (services.py 16)
\* and leaves alone, fdf the table returned, table_df the table the second
\* call returns.
\* Lines whose numbers and dates vary.
NormalizeRows ==
    {[TextRow(s_A, s_Asia, s_ongoing, ll[1], ll[2], dd[1], deaths, s_url)
         EXCEPT ![c_last_verified] = dd[2]] :
        ll \in {<<s_10, s_20>>, <<s_abc, <<>>>>, <<<<>>, s_abc>>},
        deaths \in {<<>>, s_1200, s_0, s_abc},
        dd \in {<<d_2024_01_01, d_2025_04_20>>, <<d_2024_13_40, d_2025_04_20>>,
                <<<<>>, d_2024_13_40>>}}

InitNormalize == InitLib(NormalizeRows)

\* fdf = CaseService.normalize(df)
CallNormalizeCopy ==
    /\ pc = "start"
    /\ fdf' = normalize(df)
    /\ pc' = "normalized"
    /\ UNCHANGED <<exists, files, ran, shown, read_path, df, missing, issues, sel, df_map,
                   table_df, download, sources>>

\* table_df = CaseService.normalize(fdf)
CallNormalizeAgain ==
    /\ pc = "normalized"
    /\ table_df' = normalize(fdf)
    /\ pc' = "renormalized"
    /\ UNCHANGED <<exists, files, ran, shown, read_path, df, missing, issues, sel, fdf,
                   df_map, download, sources>>

NextNormalize == CallNormalizeCopy \/ CallNormalizeAgain

SpecNormalize == InitNormalize /\ [][NextNormalize]_vars

\* CaseService.colorize called on a table as loaded or normalized.
\* Lines whose status varies: the three known ones, another casing, two
\* unknown ones and a blank.
ColorRows ==
    {TextRow(s_A, s_Asia, status, s_10, s_20, d_2024_01_01, <<>>, s_url) :
        status \in {s_ongoing, s_Ongoing, s_escalating, s_at_risk, s_abc, s_MENA, <<>>}}

\* fdf = CaseService.colorize(df)
CallColorize ==
    /\ pc \in {"start", "normalize"}
    /\ fdf' = colorize(df)
    /\ pc' = "colorize"
    /\ UNCHANGED <<exists, files, ran, shown, read_path, df, missing, issues, sel, df_map,
                   table_df, download, sources>>

NextColors == CallNormalize \/ CallColorize

SpecColors == InitLib(ColorRows) /\ [][NextColors]_vars

\* ------------------------------------------------------------------ claims: filter
\* What the claims say of one row, in their own words.
RegionText(row) == IF row.cells[c_region].t = "str" THEN row.cells[c_region].v ELSE s_nan

StatusText(row) == IF row.cells[c_status].t = "str" THEN row.cells[c_status].v ELSE s_nan

HasStartYear(row) == row.cells[c_start_date].t = "date"

RegionOk(row) == sel.regions = {} \/ RegionText(row) \in sel.regions

StatusOk(row) == sel.statuses = {} \/ StatusText(row) \in sel.statuses

YearOk(row) ==
    /\ HasStartYear(row)
    /\ sel.ymin <= row.cells[c_start_date].y
    /\ row.cells[c_start_date].y <= sel.ymax

Labels(d) == {d.rows[i].idx : i \in 1..Len(d.rows)}

\* C1. Filter soundness: every row filter returns is in the selected regions
\* (or none is selected), in the selected statuses (or none is selected), and
\* has a start year within [year_min, year_max].
C1_FilterSoundness ==
    pc = "filter" =>
        \A k \in 1..Len(fdf.rows) :
            RegionOk(fdf.rows[k]) /\ StatusOk(fdf.rows[k]) /\ YearOk(fdf.rows[k])

\* A call with both selections made that returns one of two rows.
C1_Witness ==
    /\ pc = "filter"
    /\ sel.regions = {s_Asia} /\ sel.statuses = {s_ongoing}
    /\ Len(df.rows) = 2 /\ Len(fdf.rows) = 1
    /\ RegionText(df.rows[1]) = s_nan

\* C2. Filter completeness and order: every row of the table that satisfies
\* the three predicates is in the output exactly once, every output row is a
\* row of the table, and the output keeps the table's order.
C2_FilterCompleteness ==
    pc = "filter" =>
        /\ \A i \in 1..Len(df.rows) :
             (RegionOk(df.rows[i]) /\ StatusOk(df.rows[i]) /\ YearOk(df.rows[i]))
                => Cardinality({k \in 1..Len(fdf.rows) : fdf.rows[k] = df.rows[i]}) = 1
        /\ \A k \in 1..Len(fdf.rows) : \E i \in 1..Len(df.rows) : fdf.rows[k] = df.rows[i]
        /\ \A k \in 1..Len(fdf.rows), l \in 1..Len(fdf.rows) :
             k < l => fdf.rows[k].idx < fdf.rows[l].idx
        /\ fdf.columns = df.columns

\* Two rows with the same id and the same values, both returned, in order.
C2_Witness ==
    /\ pc = "filter"
    /\ Len(fdf.rows) = 2
    /\ fdf.rows[1].cells = fdf.rows[2].cells
    /\ fdf.rows[1].cells[c_id] = Str(s_A)
    /\ sel.regions # {} /\ sel.statuses # {}

\* The year range covers every start year of the table.
CoversAllYears ==
    \A i \in 1..Len(df.rows) : HasStartYear(df.rows[i]) => YearOk(df.rows[i])

\* C3 as stated. With no region selected, "ongoing" selected and a year range
\* covering every start year, filter returns exactly the rows whose status is
\* "ongoing".
C3_OngoingExactly ==
    (pc = "filter" /\ sel.regions = {} /\ sel.statuses = {s_ongoing} /\ CoversAllYears)
        => LET Ongoing(row) == StatusText(row) = s_ongoing
           IN fdf.rows = SelectSeq(df.rows, Ongoing)

\* C3 as amended. An empty selection puts no constraint on its field; with no
\* region selected, "ongoing" selected and a year range covering every start
\* year, filter returns exactly the rows whose status is "ongoing" and which
\* have a start date, whatever their region.
C3_EmptySelectionAllPass ==
    pc = "filter" =>
        LET ByStatusYear(row) == StatusOk(row) /\ YearOk(row)
            ByRegionYear(row) == RegionOk(row) /\ YearOk(row)
            OngoingDated(row) == StatusText(row) = s_ongoing /\ HasStartYear(row)
        IN /\ sel.regions = {} => fdf.rows = SelectSeq(df.rows, ByStatusYear)
           /\ sel.statuses = {} => fdf.rows = SelectSeq(df.rows, ByRegionYear)
           /\ (sel.regions = {} /\ sel.statuses = {s_ongoing} /\ CoversAllYears)
                => fdf.rows = SelectSeq(df.rows, OngoingDated)

\* No region selected: two "ongoing" rows of different regions, both returned.
C3_Witness ==
    /\ pc = "filter"
    /\ sel.regions = {} /\ sel.statuses = {s_ongoing} /\ CoversAllYears
    /\ Len(fdf.rows) = 2
    /\ RegionText(fdf.rows[1]) # RegionText(fdf.rows[2])

\* The start dates the files hold that are no date: a blank and 2024-13-40.
AbsentStart(text) == text = <<>> \/ text = d_2024_13_40

StartColumn == CHOOSE j \in 1..Len(REQUIRED_COLS) : REQUIRED_COLS[j] = c_start_date

\* C4. A row whose start_date is blank or no calendar date is a row of the
\* normalized table, with no start date, and is in no output of filter.
C4_AbsentStartNeverPasses ==
    pc \in {"normalize", "filter"} =>
        \A i \in 1..Len(files[read_path].rows) :
            AbsentStart(files[read_path].rows[i][StartColumn]) =>
                /\ Len(df.rows) = Len(files[read_path].rows)
                /\ df.rows[i].idx = i - 1
                /\ ~HasStartYear(df.rows[i])
                /\ pc = "filter" => (i - 1) \notin Labels(fdf)

\* Nothing selected and 2024 in range: the row dated 2024-13-40 is left out,
\* the row dated 2024-01-01 is returned.
C4_Witness ==
    /\ pc = "filter"
    /\ sel.regions = {} /\ sel.statuses = {}
    /\ sel.ymin <= 2024 /\ 2024 <= sel.ymax
    /\ Len(df.rows) = 2
    /\ files[read_path].rows[1][StartColumn] = d_2024_13_40
    /\ Labels(fdf) = {1}

\* ------------------------------------------------------------------ claims: loading
\* name is the header name written as h, trimmed and lowercased: h is some
\* blanks, then a text that neither starts nor ends with a blank and whose
\* characters are name's up to case, then some blanks.
IsTrimmedLower(name, h) ==
    \E a \in 0..(Len(h) - Len(name)) :
        /\ \A k \in 1..Len(h) : (k <= a \/ k > a + Len(name)) => h[k] = " "
        /\ \A k \in 1..Len(name) :
             /\ name[k] \notin UpperCase
             /\ \/ h[a + k] = name[k]
                \/ h[a + k] \in UpperCase /\ LowerChar(h[a + k]) = name[k]
        /\ name # <<>> => (name[1] # " " /\ name[Len(name)] # " ")

LoadHasRun == InSeq("load", ran)

FileRead == files[read_path]

HeaderNames(c) == \E j \in 1..Len(FileRead.header) : IsTrimmedLower(c, FileRead.header[j])

\* C5. Schema hard stop: validate returns exactly the required names the
\* loaded table lacks, in the schema's order (the empty list iff it lacks
\* none); a non-empty list is shown and the pass stops there: no later
\* stage has run and none of their results exists.
C5_SchemaHardStop ==
    InSeq("validate", ran) =>
        LET Lacking(c) == ~HeaderNames(c)
        IN /\ missing = SelectSeq(REQUIRED_COLS, Lacking)
           /\ (missing = <<>>) <=> (\A j \in 1..Len(REQUIRED_COLS) : HeaderNames(REQUIRED_COLS[j]))
           /\ missing # <<>> =>
                /\ pc = "stopped"
                /\ ran = <<"load", "validate">>
                /\ shown # <<>>
                /\ shown[Len(shown)] = [kind |-> "error", about |-> missing]
                /\ issues = <<>> /\ sel = NoSel /\ fdf = NoDF /\ df_map = NoDF
                /\ table_df = NoDF /\ download = NoDF /\ sources = <<>>

\* A file without latitude and longitude: both are listed and the pass stopped.
C5_Witness ==
    /\ pc = "stopped"
    /\ missing = <<c_latitude, c_longitude>>
    /\ Len(FileRead.rows) = 1

\* C6. Loader path selection: load reads the preferred path whenever it
\* exists, the fallback path only when the preferred does not exist and the
\* fallback does, and returns None iff neither exists; the table's column
\* names are the file's header names, trimmed and lowercased.
C6_LoaderPathSelection ==
    LoadHasRun =>
        /\ exists[PREFERRED_PATH] => read_path = PREFERRED_PATH
        /\ read_path = FALLBACK_PATH <=> (~exists[PREFERRED_PATH] /\ exists[FALLBACK_PATH])
        /\ read_path = "None" <=> (~exists[PREFERRED_PATH] /\ ~exists[FALLBACK_PATH])
        /\ (pc = "stopped" /\ ran = <<"load">>)
              <=> (~exists[PREFERRED_PATH] /\ ~exists[FALLBACK_PATH])
        /\ (read_path # "None" /\ FileRead.parseable) =>
              /\ Len(df.columns) = Len(FileRead.header)
              /\ \A j \in 1..Len(df.columns) : IsTrimmedLower(df.columns[j], FileRead.header[j])
              /\ Len(df.rows) = Len(FileRead.rows)

\* Only the fallback exists; its padded, upper-cased header is read.
C6_Witness ==
    /\ pc = "validate"
    /\ ~exists[PREFERRED_PATH] /\ exists[FALLBACK_PATH]
    /\ read_path = FALLBACK_PATH
    /\ FileRead.header = HeaderMessy
    /\ df.columns[1] = c_id /\ df.columns[5] = c_latitude

\* C7 as stated. When the file load picks exists and cannot be parsed, the
\* pass ends stopped, an error about the path shown, as when no CSV is found:
\* it does not end in an exception.
C7_UnparseableIsReported ==
    (LoadHasRun /\ read_path # "None" /\ ~FileRead.parseable) =>
        /\ pc = "stopped"
        /\ \E k \in 1..Len(shown) : shown[k].kind = "error"

\* ------------------------------------------------------------------ claims: coordinates
\* The latitude and longitude of a row of a normalized table are bad when
\* one is absent or out of its range (numbers are in tenths).
BadCoordinates(row) ==
    \/ row.cells[c_latitude].t # "num"
    \/ row.cells[c_longitude].t # "num"
    \/ row.cells[c_latitude].v < -900 \/ row.cells[c_latitude].v > 900
    \/ row.cells[c_longitude].v < -1800 \/ row.cells[c_longitude].v > 1800

\* C8 as stated. At the end of a pass every filtered row with bad
\* coordinates is reported by quality_issues, is not among the map's rows,
\* and is among the table's and the sources panel's rows.
C8_BadCoordinatesNotMapped ==
    pc = "done" =>
        \A k \in 1..Len(fdf.rows) :
            BadCoordinates(fdf.rows[k]) =>
                /\ \E e \in 1..Len(issues) : issues[e][1] = fdf.rows[k].idx
                /\ fdf.rows[k].idx \notin Labels(df_map)
                /\ fdf.rows[k].idx \in Labels(table_df)
                /\ \E s \in 1..Len(sources) : sources[s].idx = fdf.rows[k].idx

\* The texts of the files that are numerals, and their values in tenths.
CoordTextVal(s) ==
    CASE s = s_10 -> 100 [] s = s_20 -> 200 [] s = s_91 -> 910 [] s = s_m181 -> -1810

CoordPresent(cell) ==
    cell.t = "num" \/ (cell.t = "str" /\ cell.v \in {s_10, s_20, s_91, s_m181})

CoordVal(cell) == IF cell.t = "num" THEN cell.v ELSE CoordTextVal(cell.v)

HasBothCoordinates(row) ==
    CoordPresent(row.cells[c_latitude]) /\ CoordPresent(row.cells[c_longitude])

LabelSeq(rows) == [k \in 1..Len(rows) |-> rows[k].idx]

\* C9. Map-row subsetting: minimal_map_df returns at most as many rows as
\* it is given, as many iff no row has an absent or non-numeric latitude or
\* longitude; the rows it keeps are exactly the rows with both coordinates,
\* in order, with their name, color and tooltip.
C9_MapRowSubsetting ==
    pc = "minimal_map_df" =>
        /\ Len(df_map.rows) <= Len(fdf.rows)
        /\ (Len(df_map.rows) = Len(fdf.rows))
              <=> (\A i \in 1..Len(fdf.rows) : HasBothCoordinates(fdf.rows[i]))
        /\ LabelSeq(df_map.rows) = LabelSeq(SelectSeq(fdf.rows, HasBothCoordinates))
        /\ \A k \in 1..Len(df_map.rows) : \E i \in 1..Len(fdf.rows) :
              /\ fdf.rows[i].idx = df_map.rows[k].idx
              /\ \A c \in {c_name, c_color, c_tooltip} :
                    df_map.rows[k].cells[c] = fdf.rows[i].cells[c]
              /\ \A c \in {c_latitude, c_longitude} :
                    df_map.rows[k].cells[c] = Num(CoordVal(fdf.rows[i].cells[c]))

\* A table as loaded, its latitudes texts: the row with "abc" is dropped,
\* the row with "91" is kept.
C9_Witness ==
    /\ pc = "minimal_map_df"
    /\ Len(fdf.rows) = 2 /\ Len(df_map.rows) = 1
    /\ fdf.rows[1].cells[c_latitude] = Str(s_abc)
    /\ fdf.rows[2].cells[c_latitude] = Str(s_91)

ReasonsOf(label) ==
    IF \E e \in 1..Len(issues) : issues[e][1] = label
    THEN issues[CHOOSE e \in 1..Len(issues) : issues[e][1] = label][2]
    ELSE <<>>

\* C10 as stated. For every row of a table, raw or normalized, the message
\* holds "lat/lon missing or invalid" iff a coordinate is absent or no
\* number, and otherwise "lat/lon out of range" iff a coordinate is out of
\* its range; it holds no other coordinate reason, never both; each flagged
\* row has one entry, rows without a reason none, in row order.
C10_CoordinateFlags ==
    pc = "quality_issues" =>
        /\ \A i \in 1..Len(df.rows) :
             LET row == df.rows[i]
                 msgs == ReasonsOf(row.idx)
                 OutOfRange == \/ CoordVal(row.cells[c_latitude]) < -900
                               \/ CoordVal(row.cells[c_latitude]) > 900
                               \/ CoordVal(row.cells[c_longitude]) < -1800
                               \/ CoordVal(row.cells[c_longitude]) > 1800
             IN /\ InSeq("lat/lon missing or invalid", msgs) <=> ~HasBothCoordinates(row)
                /\ HasBothCoordinates(row) => (InSeq("lat/lon out of range", msgs) <=> OutOfRange)
                /\ ~HasBothCoordinates(row) => ~InSeq("lat/lon out of range", msgs)
                /\ Range(msgs) \subseteq {"lat/lon missing or invalid", "lat/lon out of range",
                                          "missing sources"}
        /\ \A e \in 1..Len(issues) : issues[e][2] # <<>>
        /\ \A e \in 1..Len(issues), g \in 1..Len(issues) : e < g => issues[e][1] < issues[g][1]

\* ------------------------------------------------------------------ claims: sources
\* The text a row of the table read has in the file, by index label and
\* column name.
ColumnAt(name) ==
    CHOOSE j \in 1..Len(FileRead.header) : IsTrimmedLower(name, FileRead.header[j])

FileText(label, name) == FileRead.rows[label + 1][ColumnAt(name)]

\* The sources field is empty after trimming: a blank cell or blanks only.
BlankSources(label) == \A k \in 1..Len(FileText(label, c_sources)) :
                          FileText(label, c_sources)[k] = " "

\* C11 as stated. At the end of a pass every row whose sources field is
\* blank in the file is flagged "missing sources", the sources panel writes
\* no link for it if it is among the filtered rows, and it is in the table
\* shown when it is among the filtered rows; a row whose sources field is
\* not blank is never flagged "missing sources".
C11_MissingSources ==
    pc = "done" =>
        /\ \A i \in 1..Len(df.rows) :
             InSeq("missing sources", ReasonsOf(df.rows[i].idx)) <=> BlankSources(df.rows[i].idx)
        /\ \A k \in 1..Len(fdf.rows) :
             BlankSources(fdf.rows[k].idx) =>
                /\ sources[k].idx = fdf.rows[k].idx /\ sources[k].links = <<>>
                /\ fdf.rows[k].idx \in Labels(table_df)

\* ------------------------------------------------------------------ claims: normalize
\* The numerals and the dates among the texts of the files, with the number
\* (in tenths) and the day each one writes.
NumberTexts == {s_0, s_10, s_20, s_91, s_m181, s_1200}

NumberOf(s) ==
    CASE s = s_0 -> 0 [] s = s_10 -> 100 [] s = s_20 -> 200 [] s = s_91 -> 910
      [] s = s_m181 -> -1810 [] s = s_1200 -> 12000

DayTexts == {d_2024_01_01, d_2025_04_20, d_1850_05_05}

DayOf(s) ==
    CASE s = d_2024_01_01 -> Date(2024, 1, 1) [] s = d_2025_04_20 -> Date(2025, 4, 20)
      [] s = d_1850_05_05 -> Date(1850, 5, 5)

NumberColumns == {c_latitude, c_longitude, c_est_deaths}

DayColumns == {c_start_date, c_last_verified}

\* The table as the loader returned it.
Loaded == load(exists, files).df

C13_NormalizeIdempotent ==
    pc = "renormalized" =>
        /\ table_df.columns = fdf.columns
        /\ Len(table_df.rows) = Len(fdf.rows)
        /\ \A i \in 1..Len(fdf.rows) :
             /\ table_df.rows[i].idx = fdf.rows[i].idx
             /\ \A c \in Range(fdf.columns) :
                  table_df.rows[i].cells[c] = fdf.rows[i].cells[c]

\* The second call was given a number, a day, an absent number and an
\* absent day.
C13_Witness ==
    /\ pc = "renormalized"
    /\ Len(fdf.rows) = 2
    /\ fdf.rows[1].cells[c_latitude] = Num(100) /\ fdf.rows[1].cells[c_start_date] = Date(2024, 1, 1)
    /\ fdf.rows[2].cells[c_latitude] = NaN /\ fdf.rows[2].cells[c_start_date] = NaT
    /\ fdf.rows[2].cells[c_est_deaths] = Num(12000)
    /\ table_df.rows[1].cells[c_start_date] = Date(2024, 1, 1)

\* ------------------------------------------------------------------ claims: colors
\* The color the claim gives a status text of the files.
ClaimedColor(text) ==
    CASE text \in {s_ongoing, s_Ongoing} -> <<220, 20, 60>>
      [] text = s_escalating -> <<255, 140, 0>>
      [] text = s_at_risk -> <<255, 215, 0>>
      [] OTHER -> <<100, 149, 237>>

\* C14. Color totality: colorize keeps every row, in order, with its
\* fields, and gives each row one color, the one of its lowercased status:
\* crimson for "ongoing", dark orange for "escalating", gold for "at-risk",
\* cornflower blue for any other status, a blank one included, whatever the
\* casing.
C14_ColorTotality ==
    pc = "colorize" =>
        /\ LabelSeq(fdf.rows) = LabelSeq(df.rows)
        /\ fdf.columns = Append(df.columns, c_color)
        /\ \A i \in 1..Len(fdf.rows) :
             /\ fdf.rows[i].cells[c_color] =
                   [t |-> "rgb", v |-> ClaimedColor(FileText(fdf.rows[i].idx, c_status))]
             /\ \A c \in Range(df.columns) : fdf.rows[i].cells[c] = df.rows[i].cells[c]

\* "Ongoing" is crimson as "ongoing" is, a blank status is cornflower blue.
C14_Witness ==
    /\ pc = "colorize"
    /\ Len(fdf.rows) = 2
    /\ FileText(0, c_status) = s_Ongoing /\ fdf.rows[1].cells[c_color].v = <<220, 20, 60>>
    /\ FileText(1, c_status) = <<>> /\ fdf.rows[2].cells[c_color].v = <<100, 149, 237>>

\* ------------------------------------------------------------------ claims: year bounds
\* The start years of the rows of the normalized table that have one.
StartYears ==
    {df.rows[i].cells[c_start_date].y :
        i \in {j \in 1..Len(df.rows) : HasStartYear(df.rows[j])}}

\* C15 as stated. Computing the default year range never fails, also when
\* every start_date is absent; the range offered is [lo, hi], lo and hi the
\* least and the greatest start year of the rows that have one, each at
\* least 1900, so that lo <= hi; a table without rows is offered a range
\* that starts at 1900 (its upper end, the current year, is outside the
\* model, which has no clock).
C15_DefaultYearBounds ==
    InSeq("sidebar_filters", ran) =>
        /\ \A k \in 1..Len(shown) : shown[k].kind # "exception"
        /\ StartYears # {} =>
              /\ SliderLo(df) = Max(1900, SetMin(StartYears))
              /\ SliderHi(df) = Max(1900, SetMax(StartYears))
              /\ SliderLo(df) <= SliderHi(df)
              /\ SliderLo(df) <= sel.ymin /\ sel.ymin <= sel.ymax /\ sel.ymax <= SliderHi(df)
        /\ Len(df.rows) = 0 => SliderLo(df) = 1900 /\ SliderLo(df) <= SliderHi(df)

\* ------------------------------------------------------------------ claims: export
\* C16 as stated. The CSV offered for download holds the rows of the
\* filtered table, in order, and the columns of the table loaded, no more
\* and no less: color and tooltip, which the presentation adapter adds, are
\* not among them.
C16_ExportColumns ==
    InSeq("download", ran) =>
        /\ LabelSeq(download.rows) = LabelSeq(fdf.rows)
        /\ download.columns = df.columns
        /\ c_color \notin Range(download.columns)
        /\ c_tooltip \notin Range(download.columns)

====
